---- MODULE Spec2Model ----
(***************************************************************************)
(* Model of the Portal Network client core (KolbyML/ultralight):           *)
(*   - ContentManager.addContentToHistory   (history content admission)    *)
(*   - StateProtocol.sendFindContent / stateStore / uTP listener           *)
(*   - StateDB.updateAccount / getSublevel / addRoot / sortAccountRecord   *)
(* Byte strings are abstracted by what the code does with them: a value    *)
(* either has length 0, fails to decode, or decodes to the content that    *)
(* belongs to one hash.                                                    *)
(***************************************************************************)
EXTENDS Integers, Sequences, FiniteSets, TLC

(***************************************************************************)
(* Bounds of the model                                                     *)
(***************************************************************************)
MaxCalls == 2      \* addContentToHistory calls that may be in flight together
NumHashes == 2     \* distinct 32-byte hash keys
NumRoots == 2      \* state roots of the StateDB
NumAddrs == 2      \* account addresses
MaxEntries == 3    \* entries of an account record given to sortAccountRecord
MantBits == 3      \* significant bits of a Number (53 in the program)
MaxPeers == 1      \* peers the routing table may hold
MaxBlockNumber == 20000  \* block numbers given to the epoch utilities
NumHeaderFields == 2     \* fields of a block header (15 in the program)
MaxTxs == 2              \* transactions of a block
MaxTxLen == 2            \* bytes of a serialized transaction
MaxUncleBytes == 1       \* bytes of the RLP of the uncle headers
MaxKeyLen == 2           \* bytes of a serialized beacon key
MaxOps == 3              \* put and del operations applied to a TrieLevel
MaxBatch == 2            \* operations of one TrieLevel.batch
MaxRootLen == 2          \* bytes of a state root given to setStateRoot
IdBits == 2        \* width of node ids / content ids (256 in the program)

Hashes == 1..NumHashes
Calls == 1..MaxCalls
IdSpace == 0..((2 ^ IdBits) - 1)

(***************************************************************************)
(* Byte-string values.  kind "empty": length 0; "garbage": bytes that no   *)
(* decoder accepts; "good": the well-formed encoding of the content that   *)
(* belongs to hash `of` (header with that hash, body/receipts of that      *)
(* block, accumulator with that root, inclusion proof for that header).    *)
(***************************************************************************)
Empty == [kind |-> "empty", of |-> 0]
Garbage == [kind |-> "garbage", of |-> 0]
Good(h) == [kind |-> "good", of |-> h]
Values == {Empty, Garbage} \cup {Good(h) : h \in Hashes}
Absent == [kind |-> "absent", of |-> 0]

\* HistoryNetworkContentTypes, plus a selector outside the enum
ContentTypes == {"BlockHeader", "BlockBody", "Receipt", "EpochAccumulator", "HeaderProof",
                 "Unknown"}

\* getHistoryNetworkContentKey(contentType, fromHexString(hashKey))
getHistoryNetworkContentKey(contentType, hashKey) == <<contentType, hashKey>>
ContentKeys == ContentTypes \X Hashes

\* selector byte of a content type inside the serialized key
TypeSelector(contentType) ==
  CASE contentType = "BlockHeader" -> 0
    [] contentType = "BlockBody" -> 1
    [] contentType = "Receipt" -> 2
    [] contentType = "EpochAccumulator" -> 3
    [] contentType = "HeaderProof" -> 4
    [] OTHER -> 5

\* content id of a content key: keccak-256 of the serialized key, here a
\* fixed mixing of selector and hash into the id space
getContentId(contentType, hashKey) ==
  ((3 * hashKey) + TypeSelector(contentType)) % (2 ^ IdBits)

RECURSIVE XorBits(_, _, _)
XorBits(a, b, n) ==
  IF n = 0 THEN 0
  ELSE (((a % 2) + (b % 2)) % 2) + (2 * XorBits(a \div 2, b \div 2, n - 1))

\* distance(nodeId, contentId) of @chainsafe/discv5: XOR as unsigned integer
distance(a, b) == XorBits(a, b, IdBits)

(***************************************************************************)
(* Hex strings, as lists of characters                                     *)
(***************************************************************************)
HexDigits ==
  <<"0", "1", "2", "3", "4", "5", "6", "7", "8", "9", "a", "b", "c", "d", "e", "f">>

RECURSIVE HexPairs(_)
HexPairs(bytes) ==
  IF bytes = <<>> THEN <<>>
  ELSE <<HexDigits[(Head(bytes) \div 16) + 1], HexDigits[(Head(bytes) % 16) + 1]>>
         \o HexPairs(Tail(bytes))

\* toHexString(bytes): "0x" and two digits per byte, as a list of characters
toHexString(bytes) == <<"0", "x">> \o HexPairs(bytes)

DigitValue(char) == CHOOSE d \in 0..15 : HexDigits[d + 1] = char

\* fromHexString(hex): the bytes of the digit pairs after "0x"
fromHexString(hex) ==
  [i \in 1..((Len(hex) - 2) \div 2) |->
     (16 * DigitValue(hex[(2 * i) + 1])) + DigitValue(hex[(2 * i) + 2])]

\* `${selector}` of a number: its decimal digits
RECURSIVE Decimal(_)
Decimal(n) ==
  IF n < 10 THEN <<HexDigits[n + 1]>> ELSE Decimal(n \div 10) \o <<HexDigits[(n % 10) + 1]>>

VARIABLES
  db,            \* history.client.db : content key -> stored value (Absent if none)
  calls,         \* one record per addContentToHistory invocation
  routingTable,  \* history.routingTable.values().length
  nodeId,        \* history.client.discv5.enr.nodeId
  radius,        \* ContentManager.radius
  stateContent,  \* the StateNetwork content of the store: content key -> value
  find,          \* the sendFindContent invocation and what it did
  knownAddresses,  \* StateDB.knownAddresses
  accountTries,    \* StateDB.accountTries: state root -> status of its TrieLevel
  trieOrder,       \* the keys of accountTries in insertion order
  tries,           \* the addresses whose account each root's trie holds
  stateRootIndex,  \* StateDB.stateRootIndex: the root orders it was given
  upd,             \* the updateAccount invocation
  sortIn,          \* argument of sortAccountRecord
  sortOut,         \* its result
  util,            \* the last call of a utility function: op, in, out
  trieDb,          \* TrieLevel.db: hex key -> hex value
  trieLog,         \* the put and del operations applied so far, in order
  trieRet,         \* the last TrieLevel.get and its result
  mgr,             \* the UltralightStateManager: state, stateRoot, stateRootBytes
  mgrCall,         \* the last call of a method of the manager and its outcome
  mgrCopy,         \* the manager the last shallowCopy returned
  sub,             \* the getSublevel invocation and the TrieLevel it returned
  orderCall        \* the last getStateRootOrderForAccount and its pathThru query

histVars == <<db, calls, routingTable, nodeId, radius>>
stateVars == <<stateContent, find>>
sdbVars == <<knownAddresses, accountTries, trieOrder, tries, stateRootIndex, upd>>
sortVars == <<sortIn, sortOut>>
utilVars == <<util>>
trieVars == <<trieDb, trieLog, trieRet>>
mgrVars == <<mgr, mgrCall, mgrCopy>>
qryVars == <<sub, orderCall>>

\* what an action of one component leaves alone
restOfHist == <<stateVars, sdbVars, sortVars, utilVars, trieVars, mgrVars, qryVars>>
restOfState == <<histVars, sdbVars, sortVars, utilVars, trieVars, mgrVars, qryVars>>
restOfSdb == <<histVars, stateVars, sortVars, utilVars, trieVars, mgrVars, qryVars>>
restOfSort == <<histVars, stateVars, sdbVars, utilVars, trieVars, mgrVars, qryVars>>
restOfUtil == <<histVars, stateVars, sdbVars, sortVars, trieVars, mgrVars, qryVars>>
restOfTrie == <<histVars, stateVars, sdbVars, sortVars, utilVars, mgrVars, qryVars>>
restOfMgr == <<histVars, stateVars, sdbVars, sortVars, utilVars, trieVars, qryVars>>
restOfQry == <<histVars, stateVars, sdbVars, sortVars, utilVars, trieVars, mgrVars>>

vars == <<histVars, stateVars, sdbVars, sortVars, utilVars, trieVars, mgrVars, qryVars>>

IdleCall ==
  [pc |-> "idle", contentType |-> "BlockHeader", hashKey |-> 1, value |-> Empty,
   put |-> "none", added |-> 0, verified |-> "none", verifiedCount |-> 0,
   gossip |-> FALSE,
   outcome |-> "none", path |-> "none"]

\* node id of the local ENR and the default radius (the whole id space)
LocalNodeId == 1 % (2 ^ IdBits)
DefaultRadius == (2 ^ IdBits) - 1

HistInit ==
  /\ db = [k \in ContentKeys |-> Absent]
  /\ calls = [c \in Calls |-> IdleCall]
  /\ routingTable = 0
  /\ nodeId = LocalNodeId
  /\ radius = DefaultRadius

\* a node constructed with any node id and any configured radius
HistInitAnyRadius ==
  /\ db = [k \in ContentKeys |-> Absent]
  /\ calls = [c \in Calls |-> IdleCall]
  /\ routingTable = 0
  /\ nodeId \in IdSpace
  /\ radius \in IdSpace

(***************************************************************************)
(* ContentManager.addContentToHistory.  One action per stretch of code     *)
(* between two awaits; the record of a call keeps what the call did.       *)
(***************************************************************************)

\* `return` before the end of the function: the promise resolves
Return(r) == [r EXCEPT !.pc = "done", !.outcome = "resolved"]

\* an exception that leaves the function: the promise rejects
Throw(r) == [r EXCEPT !.pc = "done", !.outcome = "rejected"]

\* client.db.put(contentKey, toHexString(value)), never awaited: when the
\* store fails, the promise it returned rejects with nobody listening
PutDb(r, putOk) ==
  IF putOk
    THEN [db EXCEPT ![getHistoryNetworkContentKey(r.contentType, r.hashKey)] = r.value]
    ELSE db

PutRec(r, putOk) == [r EXCEPT !.put = IF putOk THEN "ok" ELSE "failed"]

\* the handler tail with the `contentType !== HeaderProof` test left out
EmitAndGossipEveryType(r) ==
  [r EXCEPT !.added = @ + 1,
            !.gossip = (routingTable > 0),
            !.pc = "done",
            !.outcome = "resolved"]

\* the code after the switch: ContentAdded unless HeaderProof, then gossip
\* when the routing table is not empty
EmitAndGossip(r) ==
  [r EXCEPT !.added = IF r.contentType # "HeaderProof" THEN @ + 1 ELSE @,
            !.gossip = (routingTable > 0),
            !.pc = "done",
            !.outcome = "resolved"]

\* BlockHeader.fromRLPSerializedHeader(value) throws unless the bytes are a header
HeaderDecodes(value) == value.kind = "good"

\* toHexString(header.hash())
HeaderHash(value) == value.of

\* reassembleBlock(header, body): throws unless both decode; the block it
\* returns carries the given header
ReassembleOk(hexHeader, value) == hexHeader.kind = "good" /\ value.kind = "good"

\* SszProofType.deserialize(value) throws unless the bytes are a proof
ProofDeserializes(value) == value.kind = "good"

\* accumulator.verifyInclusionProof(proof, hashKey)
verifyInclusionProof(value, hashKey) == value.of = hashKey

\* a new invocation takes the lowest free record (the records are
\* interchangeable)
CanStart(c) ==
  /\ calls[c].pc = "idle"
  /\ \A d \in Calls : d < c => calls[d].pc # "idle"

NewCall(contentType, hashKey, value) ==
  [IdleCall EXCEPT !.pc = "run", !.contentType = contentType, !.hashKey = hashKey,
                   !.value = value, !.outcome = "pending"]

\* case BlockHeader: no await on this path
AddBlockHeader(c) ==
  /\ CanStart(c)
  /\ \E hashKey \in Hashes, value \in Values, putOk \in BOOLEAN :
       LET r == NewCall("BlockHeader", hashKey, value) IN
         IF ~HeaderDecodes(value) \/ HeaderHash(value) # hashKey
           THEN /\ calls' = [calls EXCEPT ![c] = Return(r)]
                /\ db' = db
           ELSE /\ calls' = [calls EXCEPT ![c] = EmitAndGossip(PutRec(r, putOk))]
                /\ db' = PutDb(r, putOk)
  /\ UNCHANGED <<routingTable, nodeId, radius, restOfHist>>

\* case BlockBody up to `await db.get(headerContentKey)`
AddBlockBody(c) ==
  /\ CanStart(c)
  /\ \E hashKey \in Hashes, value \in Values :
       LET r == NewCall("BlockBody", hashKey, value) IN
         calls' = [calls EXCEPT ![c] =
                     IF value.kind = "empty" THEN Return(r) ELSE [r EXCEPT !.pc = "awaitGet"]]
  /\ UNCHANGED <<db, routingTable, nodeId, radius, restOfHist>>

\* `if (block instanceof Block)`: put, then saveReceipts when the block has
\* transactions; otherwise return without storing
StoreBody(r, isBlock, putOk, hasTx) ==
  IF ~isBlock THEN Return(r)
  ELSE IF hasTx THEN [PutRec(r, putOk) EXCEPT !.pc = "awaitSave"]
  ELSE EmitAndGossip(PutRec(r, putOk))

\* db.get resolved or rejected; reassembleBlock; on either failure the
\* catch starts `await ETH.getBlockByHash(hashKey, false)`
BodyGetDone(c) ==
  /\ calls[c].pc = "awaitGet"
  /\ LET r == calls[c]
         hexHeader == db[getHistoryNetworkContentKey("BlockHeader", r.hashKey)]
     IN IF hexHeader # Absent /\ ReassembleOk(hexHeader, r.value)
          THEN \E putOk \in BOOLEAN, hasTx \in BOOLEAN :
                 /\ calls' = [calls EXCEPT ![c] =
                               StoreBody([r EXCEPT !.path = "local"], TRUE, putOk, hasTx)]
                 /\ db' = PutDb(r, putOk)
          ELSE /\ calls' = [calls EXCEPT ![c] = [r EXCEPT !.pc = "awaitEth"]]
               /\ db' = db
  /\ UNCHANGED <<routingTable, nodeId, radius, restOfHist>>

\* ETH.getBlockByHash settled: a Block, undefined, or a rejection
BodyEthDone(c) ==
  /\ calls[c].pc = "awaitEth"
  /\ \E res \in {"block", "undefined", "throws"}, putOk \in BOOLEAN, hasTx \in BOOLEAN :
       LET r == [calls[c] EXCEPT !.path = "eth"] IN
         IF res = "throws"
           THEN /\ calls' = [calls EXCEPT ![c] = Throw(r)]
                /\ db' = db
           ELSE /\ calls' = [calls EXCEPT ![c] = StoreBody(r, res = "block", putOk, hasTx)]
                /\ db' = IF res = "block" THEN PutDb(r, putOk) ELSE db
  /\ UNCHANGED <<routingTable, nodeId, radius, restOfHist>>

\* receiptManager.saveReceipts settled; a rejection is caught and logged
BodySaveDone(c) ==
  /\ calls[c].pc = "awaitSave"
  /\ calls' = [calls EXCEPT ![c] = EmitAndGossip(calls[c])]
  /\ UNCHANGED <<db, routingTable, nodeId, radius, restOfHist>>

\* case Receipt: put, no await
AddReceipt(c) ==
  /\ CanStart(c)
  /\ \E hashKey \in Hashes, value \in Values, putOk \in BOOLEAN :
       LET r == NewCall("Receipt", hashKey, value) IN
         /\ calls' = [calls EXCEPT ![c] = EmitAndGossip(PutRec(r, putOk))]
         /\ db' = PutDb(r, putOk)
  /\ UNCHANGED <<routingTable, nodeId, radius, restOfHist>>

\* case EpochAccumulator: put, no await
AddEpochAccumulator(c) ==
  /\ CanStart(c)
  /\ \E hashKey \in Hashes, value \in Values, putOk \in BOOLEAN :
       LET r == NewCall("EpochAccumulator", hashKey, value) IN
         /\ calls' = [calls EXCEPT ![c] = EmitAndGossip(PutRec(r, putOk))]
         /\ db' = PutDb(r, putOk)
  /\ UNCHANGED <<routingTable, nodeId, radius, restOfHist>>

\* this.history.client.emit('Verified', hashKey, verified)
EmitVerified(r, verified) ==
  [r EXCEPT !.verified = IF verified THEN "true" ELSE "false",
            !.verifiedCount = @ + 1]

\* case HeaderProof up to `await verifyInclusionProof`; a deserialize
\* failure goes to the catch: Verified(hashKey, false), break
AddHeaderProof(c) ==
  /\ CanStart(c)
  /\ \E hashKey \in Hashes, value \in Values :
       LET r == NewCall("HeaderProof", hashKey, value) IN
         calls' = [calls EXCEPT ![c] =
                     IF ProofDeserializes(value)
                       THEN [r EXCEPT !.pc = "awaitVerify"]
                       ELSE EmitAndGossip(EmitVerified(r, FALSE))]
  /\ UNCHANGED <<db, routingTable, nodeId, radius, restOfHist>>

\* verifyInclusionProof settled: Verified(hashKey, verified), or the catch
\* when it rejected: Verified(hashKey, false)
ProofVerifyDone(c) ==
  /\ calls[c].pc = "awaitVerify"
  /\ \E rejects \in BOOLEAN :
       LET r == calls[c]
           verified == ~rejects /\ verifyInclusionProof(r.value, r.hashKey)
       IN calls' = [calls EXCEPT ![c] =
                      EmitAndGossip(EmitVerified(r, verified))]
  /\ UNCHANGED <<db, routingTable, nodeId, radius, restOfHist>>

\* default: throw new Error('unknown data type provided')
AddUnknown(c) ==
  /\ CanStart(c)
  /\ \E hashKey \in Hashes, value \in Values :
       calls' = [calls EXCEPT ![c] = Throw(NewCall("Unknown", hashKey, value))]
  /\ UNCHANGED <<db, routingTable, nodeId, radius, restOfHist>>

\* the routing table gains or loses a peer (NodeAdded / NodeRemoved)
NodeAdded ==
  /\ routingTable < MaxPeers
  /\ routingTable' = routingTable + 1
  /\ UNCHANGED <<db, calls, nodeId, radius, restOfHist>>

NodeRemoved ==
  /\ routingTable > 0
  /\ routingTable' = routingTable - 1
  /\ UNCHANGED <<db, calls, nodeId, radius, restOfHist>>

\* one call of addContentToHistory on a fresh node, with peers coming and going
OneCallNext ==
  \/ AddBlockHeader(1)
  \/ AddBlockBody(1)
  \/ BodyGetDone(1)
  \/ BodyEthDone(1)
  \/ BodySaveDone(1)
  \/ AddReceipt(1)
  \/ AddEpochAccumulator(1)
  \/ AddHeaderProof(1)
  \/ ProofVerifyDone(1)
  \/ AddUnknown(1)
  \/ NodeAdded
  \/ NodeRemoved

HistNext ==
  \/ \E c \in Calls : AddBlockHeader(c)
  \/ \E c \in Calls : AddBlockBody(c)
  \/ \E c \in Calls : BodyGetDone(c)
  \/ \E c \in Calls : BodyEthDone(c)
  \/ \E c \in Calls : BodySaveDone(c)
  \/ \E c \in Calls : AddReceipt(c)
  \/ \E c \in Calls : AddEpochAccumulator(c)
  \/ \E c \in Calls : AddHeaderProof(c)
  \/ \E c \in Calls : ProofVerifyDone(c)
  \/ \E c \in Calls : AddUnknown(c)
  \/ NodeAdded
  \/ NodeRemoved


(***************************************************************************)
(* Claims about ContentManager.addContentToHistory                          *)
(***************************************************************************)

Started(c) == calls[c].pc # "idle"

Key(c) == getHistoryNetworkContentKey(calls[c].contentType, calls[c].hashKey)

\* the supplied value fails the verification of its content type
VerificationFails(r) ==
  \/ /\ r.contentType = "BlockHeader"
     /\ ~HeaderDecodes(r.value) \/ HeaderHash(r.value) # r.hashKey
  \/ /\ r.contentType = "BlockBody"
     /\ ~ReassembleOk(Good(r.hashKey), r.value)
  \/ /\ r.contentType = "HeaderProof"
     /\ r.verified = "false"

\* C1: a call whose value fails verification (header that does not decode or
\* hashes to another key, body from which no block can be assembled, proof
\* that does not deserialize or verify) performs no db.put, emits no
\* ContentAdded and does not call gossipManager.add.
C1_FailedVerificationDiscards ==
  \A c \in Calls :
    (Started(c) /\ VerificationFails(calls[c])) =>
      /\ calls[c].put = "none"
      /\ calls[c].added = 0
      /\ ~calls[c].gossip

\* the verifier of a storable content type accepts (hashKey, value)
VerifierAccepts(r) ==
  CASE r.contentType = "BlockHeader" -> HeaderDecodes(r.value) /\ HeaderHash(r.value) = r.hashKey
    [] r.contentType = "BlockBody" -> ReassembleOk(Good(r.hashKey), r.value)
    [] r.contentType = "Receipt" -> r.value.kind = "good" /\ r.value.of = r.hashKey
    [] r.contentType = "EpochAccumulator" -> r.value.kind = "good" /\ r.value.of = r.hashKey
    [] OTHER -> FALSE

\* C2: every db.put of a call happens only after the verifier of the content
\* type has accepted (key, value); a Receipt is written only if the root of
\* its receipts is the header's receiptsRoot, an EpochAccumulator only if
\* its hash is the key's epoch root.
C2_PutOnlyAfterVerifier ==
  \A c \in Calls : calls[c].put # "none" => VerifierAccepts(calls[c])

OutsideRadius(r) == distance(nodeId, getContentId(r.contentType, r.hashKey)) > radius

\* C3: an item whose content id is farther than radius from the local node
\* id is rejected (nothing written, emitted or gossiped), so every item
\* written satisfies XOR(node id, content id) <= radius.
C3_RejectsOutsideRadius ==
  \A c \in Calls :
    (Started(c) /\ OutsideRadius(calls[c])) =>
      /\ calls[c].put = "none"
      /\ calls[c].added = 0
      /\ ~calls[c].gossip

\* C4: every BlockBody value written under hashKey reassembles with the
\* header of hashKey into a block, also when the block came from
\* ETH.getBlockByHash.
C4_StoredBodyReassembles ==
  \A c \in Calls :
    (calls[c].contentType = "BlockBody" /\ calls[c].put = "ok") =>
      ReassembleOk(Good(calls[c].hashKey), calls[c].value)

\* C5: a call emits ContentAdded at most once, and only after the value was
\* successfully written in that call; a call that stored nothing emits none.
C5_ContentAddedOnlyAfterWrite ==
  \A c \in Calls :
    /\ calls[c].added <= 1
    /\ calls[c].added > 0 => calls[c].put = "ok"

\* C6: when the store's put fails, the call rejects, no ContentAdded is
\* emitted and gossipManager.add is not called.
C6_PutFailureReported ==
  \A c \in Calls :
    (calls[c].put = "failed" /\ calls[c].pc = "done") =>
      /\ calls[c].outcome = "rejected"
      /\ calls[c].added = 0
      /\ ~calls[c].gossip

InFlight(c) == calls[c].pc \in {"awaitGet", "awaitEth", "awaitSave", "awaitVerify"}

\* C7: calls that are in flight together for the same content type and
\* hashKey make one store write between them.
C7_OneWritePerContentId ==
  \A c, d \in Calls :
    (c # d /\ InFlight(c) /\ InFlight(d) /\ Key(c) = Key(d)) =>
      ~(calls[c].put = "ok" /\ calls[d].put = "ok")

\* C11: a HeaderProof call emits Verified exactly once, with the result of
\* verifyInclusionProof, and with false when deserializing or verifying
\* threw; it never writes the proof to the store and never emits
\* ContentAdded.
C11_ProofOnlyVerified ==
  \A c \in Calls :
    LET r == calls[c] IN
      (Started(c) /\ r.contentType = "HeaderProof") =>
        /\ r.put = "none"
        /\ r.added = 0
        /\ db[Key(c)] = Absent
        /\ r.pc # "done" => r.verifiedCount = 0
        /\ r.pc = "done" =>
             /\ r.verifiedCount = 1
             /\ r.outcome = "resolved"
             /\ r.verified = "true" =>
                  (r.value.kind = "good" /\ r.value.of = r.hashKey)
             /\ r.value.kind # "good" => r.verified = "false"
             /\ (r.value.kind = "good" /\ r.value.of # r.hashKey) =>
                  r.verified = "false"

\* a proof that was verified against its header hash
C11_Witness ==
  \E c \in Calls :
    /\ calls[c].pc = "done"
    /\ calls[c].contentType = "HeaderProof"
    /\ calls[c].verified = "true"
    /\ calls[c].verifiedCount = 1

\* C12: content reaches gossipManager.add when the routing table holds a
\* peer, and never for the accumulator content types (EpochAccumulator,
\* HeaderProof).
C12_AccumulatorsNotGossiped ==
  \A c \in Calls :
    LET r == calls[c] IN
      /\ r.gossip => (r.pc = "done" /\ r.outcome = "resolved")
      /\ r.contentType \in {"EpochAccumulator", "HeaderProof"} => ~r.gossip

(***************************************************************************)
(* StateProtocol: sendFindContent, stateStore and the uTP listener         *)
(***************************************************************************)

StateKeys == Hashes

\* MessageCodes of the wire protocol
NODES == 3
CONTENT == 5

\* FoundContent: the selectors of the CONTENT union
UTP == 0
FOUNDCONTENT == 1
ENRS == 2

\* the node ids the state routing table holds, and the forms of dstId
StateRoutingTable == {1}
DstIds == [form : {"enr", "0xhex", "hex"}, node : {1, 2}]

\* ENR.decodeTxt(dstId), routingTable.getWithPending(dstId) or
\* routingTable.getWithPending(dstId.slice(2)); "none" when nothing is found
EnrOf(dstId) ==
  IF dstId.form = "enr" \/ dstId.node \in StateRoutingTable THEN dstId.node ELSE 0

\* bytes of a uTP connection id as sent on the wire
IdBytes == {<<0, 1>>, <<1, 0>>}

\* what follows the message code in a response: bytes that do not
\* deserialize, or a union of selector and value
Undecodable == <<9>>
Payloads ==
  {Undecodable} \cup {<<UTP, b>> : b \in IdBytes} \cup {<<FOUNDCONTENT, v>> : v \in Values}
    \cup {<<ENRS, 0>>}

\* responses of the peer: no bytes, or a message code and a payload
Responses == {<<>>} \cup ({NODES, CONTENT} \X Payloads)

\* a deserializer that takes any bytes for a union
DeserializesAnything(payload) == TRUE

\* ContentMessageType.deserialize(res.subarray(1)) throws on bytes that are
\* no CONTENT union
Deserializes(payload) == payload # Undecodable /\ payload[1] \in {UTP, FOUNDCONTENT, ENRS}

\* getUint16(0, true): the connection id read little-endian
getUint16LittleEndian(bytes) == bytes[1] + (256 * bytes[2])

\* new DataView(value.buffer).getUint16(0, false): big-endian
getUint16(bytes) == (256 * bytes[1]) + bytes[2]

\* BaseProtocol.put(protocolId, contentKey, content): the write to the store
\* (not awaited by stateStore; a failing write is not observed)
put(store, contentKey, content, putOk) ==
  IF putOk THEN [store EXCEPT ![contentKey] = content] ELSE store

\* stateStore(contentKey, content): put, log
stateStore(store, contentKey, content, putOk) == put(store, contentKey, content, putOk)

\* BaseProtocol.retrieve(contentKey): the stored value, or undefined
retrieve(store, contentKey) == store[contentKey]

\* findContentLocally(contentKey): the bytes of the stored value, or the
\* bytes of '0x' when retrieve found nothing
findContentLocally(store, contentKey) ==
  IF retrieve(store, contentKey) # Absent THEN retrieve(store, contentKey) ELSE Empty

IdleFind ==
  [pc |-> "idle", dstId |-> [form |-> "enr", node |-> 1], key |-> 1, res |-> <<>>,
   ret |-> "none", stored |-> <<>>, opened |-> <<>>]

StateInit ==
  /\ stateContent = [k \in StateKeys |-> Absent]
  /\ find = IdleFind

\* sendFindContent up to `await this.sendMessage(...)`
SendFindContent ==
  /\ find.pc \in {"idle", "done"}
  /\ \E dstId \in DstIds, key \in StateKeys :
       find' = IF EnrOf(dstId) = 0
                 THEN [IdleFind EXCEPT !.pc = "done", !.dstId = dstId, !.key = key,
                                       !.ret = "undefined"]
                 ELSE [IdleFind EXCEPT !.pc = "awaitSend", !.dstId = dstId, !.key = key]
  /\ UNCHANGED <<stateContent, restOfState>>

\* the arm of the switch on decoded.selector: the request opened with
\* handleNewRequest (UTP), the (key, value) handed to stateStore (CONTENT)
OpenedBy(f, decoded) ==
  IF decoded[1] = UTP
    THEN <<[contentKeys |-> <<f.key>>, peerId |-> f.dstId,
            connectionId |-> getUint16(decoded[2]), requestCode |-> "FINDCONTENT_READ"]>>
    ELSE <<>>

StoredBy(f, decoded) ==
  IF decoded[1] = FOUNDCONTENT THEN <<<<f.key, decoded[2]>>>> ELSE <<>>

\* the response arrived: the rest of sendFindContent
ResponseArrives ==
  /\ find.pc = "awaitSend"
  /\ \E res \in Responses, putOk \in BOOLEAN :
       LET f == [find EXCEPT !.pc = "done", !.res = res] IN
         IF res = <<>> \/ res[1] # CONTENT \/ ~Deserializes(res[2])
           THEN /\ find' = [f EXCEPT !.ret = "undefined"]
                /\ stateContent' = stateContent
           ELSE LET decoded == res[2] IN
                  /\ find' = [f EXCEPT !.ret = "decoded", !.opened = OpenedBy(f, decoded),
                                       !.stored = StoredBy(f, decoded)]
                  /\ stateContent' =
                       IF decoded[1] = FOUNDCONTENT
                         THEN stateStore(stateContent, f.key, decoded[2], putOk)
                         ELSE stateContent
  /\ UNCHANGED restOfState

\* client.uTP.on(ProtocolId.StateNetwork, ...): a finished transfer hands
\* (contentKey, content) to stateStore
UtpContent ==
  /\ \E contentKey \in StateKeys, content \in Values, putOk \in BOOLEAN :
       stateContent' = stateStore(stateContent, contentKey, content, putOk)
  /\ UNCHANGED <<find, restOfState>>

StateNext ==
  \/ SendFindContent
  \/ ResponseArrives
  \/ UtpContent

\* the State sub-protocol verifier: the payload is the well-formed content
\* of the key
StateVerifier(contentKey, content) == content.kind = "good" /\ content.of = contentKey

\* C8: every value the StateProtocol has written to its store had passed the
\* State verifier for its content key.
C8_StoredStateContentVerified ==
  \A k \in StateKeys :
    stateContent[k] # Absent => StateVerifier(k, stateContent[k])

\* the step in which sendFindContent takes up the response of the peer
ResponseHandled == find.pc = "awaitSend" /\ find'.pc = "done"

\* a response that is empty, is no CONTENT message or does not decode
Dropped(res) == res = <<>> \/ res[1] # CONTENT \/ res[2] = Undecodable

\* C13: on a response that is empty, does not begin with the CONTENT
\* selector or cannot be decoded, sendFindContent resolves with undefined,
\* writes nothing to the store and opens no transfer.
C13_DroppedResponseDoesNothing ==
  [][(ResponseHandled /\ Dropped(find'.res)) =>
       /\ find'.ret = "undefined"
       /\ find'.stored = <<>>
       /\ find'.opened = <<>>
       /\ stateContent' = stateContent]_vars

\* a CONTENT message whose payload did not decode was dropped
C13_Witness ==
  /\ find.pc = "done"
  /\ find.res = <<CONTENT, Undecodable>>
  /\ find.ret = "undefined"

\* C14: on a decodable CONTENT response sendFindContent returns the decoded
\* union and takes the arm of its selector: selector 0 opens one
\* FINDCONTENT_READ request for [key] at dstId with the big-endian
\* connection id of the value and stores nothing, selector 1 hands
\* (key, value) to stateStore once and opens nothing, selector 2 does
\* neither.
C14_ArmOfSelector ==
  [][(ResponseHandled /\ ~Dropped(find'.res)) =>
       LET selector == find'.res[2][1]
           value == find'.res[2][2]
       IN /\ find'.ret = "decoded"
          /\ selector \in {UTP, FOUNDCONTENT, ENRS}
          /\ selector = UTP =>
               /\ find'.opened =
                    <<[requestCode |-> "FINDCONTENT_READ", contentKeys |-> <<find.key>>,
                       peerId |-> find.dstId,
                       connectionId |-> (256 * value[1]) + value[2]]>>
               /\ find'.stored = <<>>
               /\ stateContent' = stateContent
          /\ selector = FOUNDCONTENT =>
               /\ find'.stored = <<<<find.key, value>>>>
               /\ find'.opened = <<>>
               /\ stateContent' \in {stateContent, [stateContent EXCEPT ![find.key] = value]}
          /\ selector = ENRS =>
               /\ find'.stored = <<>>
               /\ find'.opened = <<>>
               /\ stateContent' = stateContent]_vars

\* a uTP answer with connection id bytes 01 00 opened transfer 256
C14_Witness ==
  /\ find.pc = "done"
  /\ find.res = <<CONTENT, <<UTP, <<1, 0>>>>>>
  /\ Len(find.opened) = 1
  /\ find.opened[1].connectionId = 256
  /\ find.ret = "decoded"

\* C15: findContentLocally(key) returns the value most recently stored under
\* key, or the empty byte string; once stateStore(key, content) has
\* resolved, findContentLocally(key) returns content.
C15_StoredContentIsFound ==
  [][(ResponseHandled /\ find'.stored # <<>>) =>
       findContentLocally(stateContent', find'.stored[1][1]) = find'.stored[1][2]]_vars

(***************************************************************************)
(* StateDB.sortAccountRecord                                               *)
(***************************************************************************)

RECURSIVE BitLength(_)
BitLength(n) == IF n = 0 THEN 0 ELSE 1 + BitLength(n \div 2)

\* the nearest magnitude with MantBits significant bits, ties to even
RoundMagnitude(m) ==
  IF BitLength(m) <= MantBits THEN m
  ELSE LET unit == 2 ^ (BitLength(m) - MantBits)
           q == m \div unit
           r == m % unit
           up == (2 * r > unit) \/ (2 * r = unit /\ q % 2 = 1)
       IN (IF up THEN q + 1 ELSE q) * unit

\* Number(x) of a bigint x
Number(x) == IF x < 0 THEN 0 - RoundMagnitude(0 - x) ELSE RoundMagnitude(x)

\* a comparator that converts each operand before subtracting
compareRootsConverted(a, b) ==
  IF a.nonce = b.nonce
    THEN Number(a.balance) - Number(b.balance)
    ELSE Number(a.nonce) - Number(b.nonce)

\* the comparator given to roots.sort: a and b are the entries of root1 and
\* root2 in accountRecord.accounts
compareRoots(a, b) ==
  IF a.nonce = b.nonce
    THEN Number(a.balance - b.balance)
    ELSE Number(a.nonce - b.nonce)

\* Array.prototype.sort: a stable sort by the sign of the comparator
RECURSIVE InsertSorted(_, _)
InsertSorted(sorted, x) ==
  IF sorted = <<>> THEN <<x>>
  ELSE IF compareRoots(sorted[Len(sorted)], x) > 0
    THEN Append(InsertSorted(SubSeq(sorted, 1, Len(sorted) - 1), x), sorted[Len(sorted)])
    ELSE Append(sorted, x)

RECURSIVE SortEntries(_)
SortEntries(entries) ==
  IF entries = <<>> THEN <<>>
  ELSE InsertSorted(SortEntries(SubSeq(entries, 1, Len(entries) - 1)), entries[Len(entries)])

\* sortAccountRecord: accounts is the list of (root, account) entries of the
\* record in key order; the result is built from the sorted roots
sortAccountRecord(accountRecord) ==
  [address |-> accountRecord.address, accounts |-> SortEntries(accountRecord.accounts)]

\* nonces and balances with differences that no Number holds exactly
Amounts == {0, 1, 2 ^ (MantBits + 1), (2 ^ (MantBits + 1)) + 1}
Nonces == {0, (2 ^ (MantBits + 1)) + 1}
Addrs == 1..NumAddrs
EntryRoots == 1..MaxEntries
Entries == [root : EntryRoots, nonce : Nonces, balance : Amounts]

DistinctRoots(entries) ==
  \A i, j \in 1..Len(entries) : i # j => entries[i].root # entries[j].root

\* account records: at most MaxEntries entries, one per state root
EntryLists ==
  UNION {{e \in [1..n -> Entries] : DistinctRoots(e)} : n \in 0..MaxEntries}

NoRecord == [address |-> 0, accounts |-> <<>>]

SortInit ==
  /\ sortIn \in [address : Addrs, accounts : EntryLists]
  /\ sortOut = NoRecord

\* no sortAccountRecord call is modelled in the other specifications
SortAtRest ==
  /\ sortIn = NoRecord
  /\ sortOut = NoRecord

SortAccountRecord ==
  /\ sortOut = NoRecord
  /\ sortOut' = sortAccountRecord(sortIn)
  /\ UNCHANGED <<sortIn, restOfSort>>

SortNext == SortAccountRecord

\* order by nonce, then by balance, as unbounded integers
NonceBalanceLeq(a, b) == a.nonce < b.nonce \/ (a.nonce = b.nonce /\ a.balance <= b.balance)

EntrySet(entries) == {entries[i] : i \in 1..Len(entries)}

\* C10: sortAccountRecord returns the same address and exactly the entries
\* of its input, ordered ascending by nonce and, among equal nonces, by
\* balance, compared as unbounded integers.
C10_SortedByNonceThenBalance ==
  sortOut # NoRecord =>
    /\ sortOut.address = sortIn.address
    /\ Len(sortOut.accounts) = Len(sortIn.accounts)
    /\ EntrySet(sortOut.accounts) = EntrySet(sortIn.accounts)
    /\ \A i, j \in 1..Len(sortOut.accounts) :
         i < j => NonceBalanceLeq(sortOut.accounts[i], sortOut.accounts[j])

\* a record was sorted in which two entries of equal nonce stood in
\* descending order with a balance difference that no Number holds exactly
C10_Witness ==
  /\ sortOut # NoRecord
  /\ sortOut.accounts # sortIn.accounts
  /\ \E i, j \in 1..Len(sortIn.accounts) :
       /\ i < j
       /\ sortIn.accounts[i].nonce = sortIn.accounts[j].nonce
       /\ sortIn.accounts[i].balance > sortIn.accounts[j].balance
       /\ Number(sortIn.accounts[i].balance - sortIn.accounts[j].balance)
            # sortIn.accounts[i].balance - sortIn.accounts[j].balance

(***************************************************************************)
(* StateDB: accountTries, knownAddresses, stateRootIndex, updateAccount    *)
(***************************************************************************)
Roots == 1..NumRoots

\* the chain state the proofs speak about: the account of an address in the
\* state of a root, when it has one there
AccountExistsAt(root, addr) == (root + addr) % 3 # 0
AccountAt(root, addr) == [nonce |-> root \div 2, balance |-> (root * addr) % 4]

IdleUpd ==
  [pc |-> "idle", stateRoot |-> 1, address |-> 1, valid |-> FALSE, outcome |-> "none",
   before |-> [known |-> {}, roots |-> {}, index |-> {}]]

\* constructor: empty maps, StateRootIndex.from([])
SdbInit ==
  /\ knownAddresses = {}
  /\ accountTries = [r \in Roots |-> "none"]
  /\ trieOrder = <<>>
  /\ tries = [r \in Roots |-> {}]
  /\ stateRootIndex = {}
  /\ upd = IdleUpd

\* the keys of accountTries
Registered == {r \in Roots : accountTries[r] # "none"}

\* updateAccount up to the first await inside getStateTrie: the address is
\* added to knownAddresses; getSublevel returns the registered TrieLevel or
\* addRoot registers a new one (putSublevel) and waits for it to open
UpdateAccount ==
  /\ upd.pc \in {"idle", "done"}
  /\ \E stateRoot \in Roots, address \in Addrs, valid \in BOOLEAN :
       /\ valid => AccountExistsAt(stateRoot, address)
       /\ knownAddresses' = knownAddresses \cup {address}
       /\ IF accountTries[stateRoot] # "none"
            THEN /\ UNCHANGED <<accountTries, trieOrder>>
                 /\ upd' = [IdleUpd EXCEPT !.pc = "awaitCreate", !.stateRoot = stateRoot,
                              !.address = address, !.valid = valid,
                              !.before = [known |-> knownAddresses, roots |-> Registered,
                                          index |-> stateRootIndex]]
            ELSE /\ accountTries' = [accountTries EXCEPT ![stateRoot] = "opening"]
                 /\ trieOrder' = Append(trieOrder, stateRoot)
                 /\ upd' = [IdleUpd EXCEPT !.pc = "awaitOpen", !.stateRoot = stateRoot,
                              !.address = address, !.valid = valid,
                              !.before = [known |-> knownAddresses, roots |-> Registered,
                                          index |-> stateRootIndex]]
  /\ UNCHANGED <<tries, stateRootIndex, restOfSdb>>

\* the MemoryLevel of a new TrieLevel finishes opening
LevelOpens(root) ==
  /\ accountTries[root] = "opening"
  /\ accountTries' = [accountTries EXCEPT ![root] = "open"]
  /\ UNCHANGED <<knownAddresses, trieOrder, tries, stateRootIndex, upd, restOfSdb>>

\* addRoot: the loop on sub.status ends once the status is 'open'
AddRootReturns ==
  /\ upd.pc = "awaitOpen"
  /\ accountTries[upd.stateRoot] = "open"
  /\ upd' = [upd EXCEPT !.pc = "awaitCreate"]
  /\ UNCHANGED <<knownAddresses, accountTries, trieOrder, tries, stateRootIndex, restOfSdb>>

\* Trie.create resolved; trie.verifyProof(stateRoot, address, witnesses):
\* throw 'Invalid account trie proof' or go on to `await trie.fromProof`
VerifyProof ==
  /\ upd.pc = "awaitCreate"
  /\ upd' = IF upd.valid
              THEN [upd EXCEPT !.pc = "awaitFromProof"]
              ELSE [upd EXCEPT !.pc = "done", !.outcome = "Invalid account trie proof"]
  /\ UNCHANGED <<knownAddresses, accountTries, trieOrder, tries, stateRootIndex, restOfSdb>>

\* getAccountRecord(address): the roots of getAllTries (the keys of
\* accountTries, in order) whose trie has the account, each with the account
getAccountRecord(order, content, address) ==
  LET roots == SelectSeq(order, LAMBDA r : address \in content[r]) IN
    [address |-> address,
     accounts |-> [i \in 1..Len(roots) |->
                     [root |-> roots[i], nonce |-> AccountAt(roots[i], address).nonce,
                      balance |-> AccountAt(roots[i], address).balance]]]

\* Object.keys(record.accounts)
RootsOf(record) == [i \in 1..Len(record.accounts) |-> record.accounts[i].root]

\* fromProof stored the witnesses; delSublevel and putSublevel re-register
\* the root (it becomes the last key of the map); the sorted roots of the
\* address go to stateRootIndex.update
FromProofDone ==
  /\ upd.pc = "awaitFromProof"
  /\ LET order == Append(SelectSeq(trieOrder, LAMBDA r : r # upd.stateRoot), upd.stateRoot)
         content == [tries EXCEPT ![upd.stateRoot] = @ \cup {upd.address}]
         roots == RootsOf(sortAccountRecord(getAccountRecord(order, content, upd.address)))
     IN /\ tries' = content
        /\ trieOrder' = order
        /\ stateRootIndex' = stateRootIndex \cup {roots}
  /\ upd' = [upd EXCEPT !.pc = "done", !.outcome = "resolved"]
  /\ UNCHANGED <<knownAddresses, accountTries, restOfSdb>>

SdbNext ==
  \/ UpdateAccount
  \/ \E root \in Roots : LevelOpens(root)
  \/ AddRootReturns
  \/ VerifyProof
  \/ FromProofDone

\* C9: an updateAccount that rejected with 'Invalid account trie proof' left
\* knownAddresses, accountTries and stateRootIndex as they were before the call.
C9_FailedProofStoresNothing ==
  (upd.pc = "done" /\ upd.outcome = "Invalid account trie proof") =>
    /\ knownAddresses = upd.before.known
    /\ Registered = upd.before.roots
    /\ stateRootIndex = upd.before.index

(***************************************************************************)
(* StateDB: getSublevel, addRoot and getStateRootOrderForAccount, called   *)
(* while an updateAccount may be under way                                 *)
(***************************************************************************)

\* what an action on the StateDB and its callers leaves alone
restOfSdbCalls == <<histVars, stateVars, sortVars, utilVars, trieVars, mgrVars>>

IdleSub == [pc |-> "idle", root |-> 1, status |-> "none"]

NoOrderCall == [addr |-> 0, query |-> <<>>]

QryInit ==
  /\ sub = IdleSub
  /\ orderCall = NoOrderCall

\* getSublevel(stateRoot): the registered TrieLevel when there is one,
\* whatever its status; else addRoot registers a new TrieLevel, starts
\* opening it and waits
GetSublevel ==
  /\ sub.pc \in {"idle", "done"}
  /\ \E stateRoot \in Roots :
       IF accountTries[stateRoot] # "none"
         THEN /\ sub' = [pc |-> "done", root |-> stateRoot, status |-> accountTries[stateRoot]]
              /\ UNCHANGED <<accountTries, trieOrder>>
         ELSE /\ accountTries' = [accountTries EXCEPT ![stateRoot] = "opening"]
              /\ trieOrder' = Append(trieOrder, stateRoot)
              /\ sub' = [pc |-> "awaitOpen", root |-> stateRoot, status |-> "none"]
  /\ UNCHANGED <<knownAddresses, tries, stateRootIndex, upd, orderCall, restOfSdbCalls>>

\* addRoot under getSublevel: the loop ends once sub.status is 'open'
GetSublevelReturns ==
  /\ sub.pc = "awaitOpen"
  /\ accountTries[sub.root] = "open"
  /\ sub' = [sub EXCEPT !.pc = "done", !.status = "open"]
  /\ UNCHANGED <<sdbVars, orderCall, restOfSdbCalls>>

\* TrieLevel.close() on a registered level, or its open failing: the status
\* of the level database ends as 'closed'
LevelCloses(root) ==
  /\ accountTries[root] \in {"opening", "open"}
  /\ accountTries' = [accountTries EXCEPT ![root] = "closed"]
  /\ UNCHANGED <<knownAddresses, trieOrder, tries, stateRootIndex, upd, qryVars,
                 restOfSdbCalls>>

\* _getAddrRoots(addr): the roots of the stored tries that have the account
getAddrRoots(order, content, addr) == SelectSeq(order, LAMBDA r : addr \in content[r])

\* Object.keys(array): the indexes of the array, as strings
ObjectKeys(array) == [i \in 1..Len(array) |-> Decimal(i - 1)]

\* getStateRootOrderForAccount(addr): the argument it gives to pathThru
GetStateRootOrderForAccount ==
  /\ \E addr \in Addrs :
       orderCall' = [addr |-> addr,
                     query |-> ObjectKeys(getAddrRoots(trieOrder, tries, addr))]
  /\ UNCHANGED <<sdbVars, sub, restOfSdbCalls>>

SdbCallsNext ==
  \/ UpdateAccount
  \/ \E root \in Roots : LevelOpens(root)
  \/ AddRootReturns
  \/ VerifyProof
  \/ FromProofDone
  \/ GetSublevel
  \/ GetSublevelReturns
  \/ \E root \in Roots : LevelCloses(root)
  \/ GetStateRootOrderForAccount

\* the event loop runs every continuation that is ready, and a level
\* database that is opening and is left alone finishes opening
SdbFairness ==
  /\ WF_vars(AddRootReturns)
  /\ WF_vars(GetSublevelReturns)
  /\ WF_vars(VerifyProof)
  /\ WF_vars(FromProofDone)
  /\ \A root \in Roots : WF_vars(LevelOpens(root))

\* C25: getStateRootOrderForAccount(addr) gives stateRootIndex.pathThru
\* exactly the state roots, as hex strings, of the stored account tries in
\* which the account of addr exists.
C25_QueryIsHexRootsOfAccount ==
  [][orderCall' # orderCall =>
       {orderCall'.query[i] : i \in 1..Len(orderCall'.query)} =
         {toHexString(<<r>>) : r \in {x \in Roots : accountTries[x] # "none"
                                                   /\ orderCall'.addr \in tries[x]}}]_vars

\* C26: the TrieLevel that getSublevel(root) resolves to has status 'open'
\* at the moment it is returned, whatever other getSublevel, addRoot or
\* getStateTrie calls for the root are under way.
C26_SublevelReturnedOpen ==
  sub.pc = "done" => sub.status = "open"

\* C27: addRoot eventually resolves in every execution, also when the open
\* fails or the sublevel is closed while the loop waits: a getSublevel or
\* getStateTrie for a new root always returns.
C27_AddRootResolves ==
  /\ (sub.pc = "awaitOpen") ~> (sub.pc = "done")
  /\ (upd.pc = "awaitOpen") ~> (upd.pc # "awaitOpen")

(***************************************************************************)
(* History utility functions: epoch accumulator indexes and roots, content *)
(* ids, block reassembly.  A call leaves its arguments and result in util. *)
(* The functions keep no state: one call from rest shows all they do.      *)
(***************************************************************************)

\* headers of one epoch accumulator
EPOCH_SIZE == 8192

BlockNumbers == 0..MaxBlockNumber

NoUtilCall == [op |-> "none", in |-> 0, out |-> 0]

UtilInit == util = NoUtilCall

\* the leaf index computed from the block number itself
blockNumberToLeafIndexOfNumber(blockNumber) == blockNumber * 2

\* blockNumberToLeafIndex(blockNumber): the header record of the block is
\* record (blockNumber mod EPOCH_SIZE) of its epoch, of two leaves each
blockNumberToLeafIndex(blockNumber) == (blockNumber % EPOCH_SIZE) * 2

\* generalized index of the data root of an SSZ list: the left child of the
\* root, whose right child is the length
ListDataGindex == 2

\* a record index taken from the root of the list, without the length node
HeaderRecordGindexFromRoot(index) == EPOCH_SIZE + index

\* generalized index of record `index` of List[HeaderRecord, EPOCH_SIZE]
HeaderRecordGindex(index) == (ListDataGindex * EPOCH_SIZE) + index

\* generalized index of field `field` of a two-field container at gindex
FieldGindex(gindex, field) == (2 * gindex) + field

\* blockNumberToGindex(blockNumber): the blockHash (field 0) of the header
\* record of the block in its epoch accumulator
blockNumberToGindex(blockNumber) ==
  FieldGindex(HeaderRecordGindex(blockNumber % EPOCH_SIZE), 0)

\* blockNumberToLeafIndex(n) and blockNumberToGindex(n)
BlockNumberToIndexes ==
  /\ util = NoUtilCall
  /\ \E blockNumber \in BlockNumbers :
       util' = [op |-> "indexes", in |-> blockNumber,
                out |-> [leafIndex |-> blockNumberToLeafIndex(blockNumber),
                         gindex |-> blockNumberToGindex(blockNumber)]]
  /\ UNCHANGED restOfUtil

\* Math.round in place of Math.floor
epochIdxRounded(number) == (number + (EPOCH_SIZE \div 2)) \div EPOCH_SIZE

\* Math.floor(Number(header.number) / 8192); block numbers are far below
\* 2^53, where Number is exact
epochIdx(number) == number \div EPOCH_SIZE

\* epochRootByIndex(index): entry `index` of the list of historical epoch
\* roots; the entries of distinct epochs are distinct hashes
epochRootByIndex(index) ==
  [epoch |-> index,
   root |-> CASE index = 0 ->
                   "0x5ec1ffb8c3b146f42606c74ced973dc16ec5a107c0345858c343fc94780b4218"
              [] index = 1 ->
                   "0xa5364e9a9bc513c4601f0d62e6b46dbdedf3200bbfae54d6350f46f2c7a01938"
              [] OTHER -> "root of a later epoch"]

\* epochRootByBlocknumber(blockNumber) of a pre-merge block
epochRootByBlocknumber(blockNumber) == epochRootByIndex(epochIdx(blockNumber))

EpochRootByBlocknumber ==
  /\ util = NoUtilCall
  /\ \E blockNumber \in BlockNumbers :
       util' = [op |-> "epochRoot", in |-> blockNumber,
                out |-> epochRootByBlocknumber(blockNumber)]
  /\ UNCHANGED restOfUtil

\* the history content types of the enum
HistoryContentTypes == ContentTypes \ {"Unknown"}

\* concatBytes(Uint8Array.from([contentType]), fromHexString(hash))
concatBytes(a, b) == a \o b

\* ContentKeyType.serialize(bytes): a byte list serializes to its bytes
ContentKeySerialize(bytes) == bytes

\* the hash of a byte string, here a fixed mixing of its bytes
RECURSIVE Digest(_)
Digest(bytes) == IF bytes = <<>> THEN 0 ELSE Head(bytes) + (3 * Digest(Tail(bytes)))

\* a content id taken from the hash part of the key alone
serializedContentKeyToContentIdOfHash(contentKey) == Digest(Tail(contentKey)) % (2 ^ IdBits)

\* serializedContentKeyToContentId(contentKey): digest of the serialized key
serializedContentKeyToContentId(contentKey) == Digest(contentKey) % (2 ^ IdBits)

\* getContentId(t, h) next to the id of the key serialized by hand
ContentIds ==
  /\ util = NoUtilCall
  /\ \E contentType \in HistoryContentTypes, hashKey \in Hashes :
       util' = [op |-> "contentId", in |-> <<contentType, hashKey>>,
                out |-> [getContentId |-> getContentId(contentType, hashKey),
                         serialized |->
                           serializedContentKeyToContentId(
                             ContentKeySerialize(
                               concatBytes(<<TypeSelector(contentType)>>, <<hashKey>>)))]]
  /\ UNCHANGED restOfUtil

\* byte strings of the block round trip: bytes below 0x80, which RLP
\* encodes as themselves
ByteValues == {0, 1}
BytesUpTo(n) == UNION {[1..k -> ByteValues] : k \in 0..n}
Transactions == BytesUpTo(MaxTxLen) \ {<<>>}
Blocks ==
  [header : [1..NumHeaderFields -> ByteValues],
   transactions : UNION {[1..k -> Transactions] : k \in 0..MaxTxs},
   uncles : BytesUpTo(MaxUncleBytes)]

\* RLP of a short list of single bytes: 0xc0 + length, then the items
RlpEncode(items) == <<192 + Len(items)>> \o items

\* a decoder that drops the last item of the list
RlpDecodeTruncating(bytes) ==
  [ok |-> TRUE, value |-> SubSeq(bytes, 2, Len(bytes) - 1)]

\* RLP.decode of such a list; ok is FALSE where it throws
RlpDecode(bytes) ==
  IF bytes # <<>> /\ Head(bytes) = 192 + (Len(bytes) - 1)
    THEN [ok |-> TRUE, value |-> Tail(bytes)]
    ELSE [ok |-> FALSE, value |-> <<>>]

\* header.serialize() and header.hash(): keccak-256 of the RLP, taken as
\* collision free
BlockHeaderSerialize(header) == RlpEncode(header)
BlockHeaderHash(header) == [keccak256 |-> BlockHeaderSerialize(header)]

RECURSIVE Concat(_)
Concat(items) == IF items = <<>> THEN <<>> ELSE Head(items) \o Concat(Tail(items))

\* SSZ of a list of byte lists: one offset per item, then the items; an
\* offset (4 bytes in the program) is one cell here and counts cells
SszSerializeList(items) ==
  [i \in 1..Len(items) |-> Len(items) + Len(Concat(SubSeq(items, 1, i - 1)))]
    \o Concat(items)

SszDeserializeList(bytes) ==
  IF bytes = <<>> THEN <<>>
  ELSE LET n == bytes[1]
           offset(i) == IF i > n THEN Len(bytes) ELSE bytes[i]
       IN [i \in 1..n |-> SubSeq(bytes, offset(i) + 1, offset(i + 1))]

\* sszEncodeBlockBody(block): container of allTransactions and sszUncles,
\* both of variable size: two offsets, then the two parts
sszEncodeBlockBody(block) ==
  LET allTransactions == SszSerializeList(block.transactions)
  IN <<2, 2 + Len(allTransactions)>> \o allTransactions \o block.uncles

\* reassembleBlock(rawHeader, rawBody): the block of the decoded header,
\* transactions and uncles; ok is FALSE where a decoder throws
reassembleBlock(rawHeader, rawBody) ==
  LET header == RlpDecode(rawHeader)
      bodyOk == /\ Len(rawBody) >= 2
                /\ rawBody[1] = 2
                /\ rawBody[2] >= 2
                /\ rawBody[2] <= Len(rawBody)
  IN IF header.ok /\ bodyOk
       THEN [ok |-> TRUE, header |-> header.value,
             transactions |-> SszDeserializeList(SubSeq(rawBody, rawBody[1] + 1, rawBody[2])),
             uncles |-> SubSeq(rawBody, rawBody[2] + 1, Len(rawBody))]
       ELSE [ok |-> FALSE, header |-> <<>>, transactions |-> <<>>, uncles |-> <<>>]

\* reassembleBlock(block.header.serialize(), sszEncodeBlockBody(block))
ReassembleBlock ==
  /\ util = NoUtilCall
  /\ \E block \in Blocks :
       util' = [op |-> "reassemble", in |-> block,
                out |-> reassembleBlock(BlockHeaderSerialize(block.header),
                                        sszEncodeBlockBody(block))]
  /\ UNCHANGED restOfUtil

UtilNext ==
  \/ BlockNumberToIndexes
  \/ EpochRootByBlocknumber
  \/ ContentIds
  \/ ReassembleBlock

\* C16: blockNumberToLeafIndex(n) = 2 * (n mod 8192) and
\* blockNumberToGindex(n) = blockNumberToGindex(n + 8192) for every block
\* number n; the leaf index of block 1000 is 2000 and the gindex of blocks
\* 1000 and 9192 is 34768.
C16_IndexesPeriodic ==
  util.op = "indexes" =>
    /\ util.out.leafIndex = 2 * (util.in % 8192)
    /\ util.out.gindex = blockNumberToGindex(util.in + 8192)
    /\ util.in = 1000 => (util.out.leafIndex = 2000 /\ util.out.gindex = 34768)
    /\ util.in = 9192 => (util.out.leafIndex = 2000 /\ util.out.gindex = 34768)

\* the indexes of block 9192, a block of the second epoch
C16_Witness ==
  /\ util.op = "indexes"
  /\ util.in = 9192
  /\ util.out = [leafIndex |-> 2000, gindex |-> 34768]

\* C17 (as claimed): blockNumberToGindex(n) = blockNumberToLeafIndex(n) +
\* 2 * EPOCH_SIZE = blockNumberToLeafIndex(n) + 16384 for every block number n.
C17_GindexTwoEpochSizes ==
  util.op = "indexes" => util.out.gindex = util.out.leafIndex + 16384

\* C17 (amended): blockNumberToGindex(n) = blockNumberToLeafIndex(n) +
\* 4 * EPOCH_SIZE = blockNumberToLeafIndex(n) + 32768 for every block number n.
C17_GindexFourEpochSizes ==
  util.op = "indexes" =>
    /\ util.out.gindex = util.out.leafIndex + (4 * EPOCH_SIZE)
    /\ util.out.gindex = util.out.leafIndex + 32768

\* the indexes of block 1000: 34768 = 2000 + 32768
C17_Witness ==
  /\ util.op = "indexes"
  /\ util.in = 1000
  /\ util.out.leafIndex = 2000
  /\ util.out.gindex = 34768

\* C18: epochRootByBlocknumber(n) = epochRootByIndex(floor(n / 8192)) for
\* every pre-merge block number n; blocks 1000 and 9192 map to the roots
\* of epoch 0 and epoch 1, which differ.
C18_EpochRootOfBlock ==
  util.op = "epochRoot" =>
    LET epoch == CHOOSE i \in 0..MaxBlockNumber :
                   (8192 * i) <= util.in /\ util.in < (8192 * (i + 1))
    IN /\ util.out = epochRootByIndex(epoch)
       /\ util.in = 1000 => util.out = epochRootByIndex(0)
       /\ util.in = 9192 => util.out = epochRootByIndex(1)
       /\ epochRootByIndex(0).root # epochRootByIndex(1).root

\* the epoch root of block 9192 is the root of epoch 1
C18_Witness ==
  /\ util.op = "epochRoot"
  /\ util.in = 9192
  /\ util.out.root = "0xa5364e9a9bc513c4601f0d62e6b46dbdedf3200bbfae54d6350f46f2c7a01938"

\* C19: getContentId(t, h) equals serializedContentKeyToContentId(
\* ContentKeyType.serialize(t || h)) for every history content type t and
\* hash h.
C19_ContentIdPathsAgree ==
  util.op = "contentId" => util.out.getContentId = util.out.serialized

\* both ids of a block body key were computed
C19_Witness ==
  /\ util.op = "contentId"
  /\ util.in[1] = "BlockBody"
  /\ util.out.serialized = util.out.getContentId

\* C20: reassembleBlock(b.header.serialize(), sszEncodeBlockBody(b)) yields
\* a block whose header hash equals b.header.hash(), for every block b.
C20_ReassembledHeaderHash ==
  util.op = "reassemble" =>
    /\ util.out.ok
    /\ BlockHeaderHash(util.out.header) = BlockHeaderHash(util.in.header)

\* a block with two transactions and uncle bytes came back whole
C20_Witness ==
  /\ util.op = "reassemble"
  /\ Len(util.in.transactions) = 2
  /\ util.in.uncles # <<>>
  /\ util.out.ok
  /\ util.out.transactions = util.in.transactions
  /\ util.out.uncles = util.in.uncles
  /\ BlockHeaderHash(util.out.header) = BlockHeaderHash(util.in.header)

(***************************************************************************)
(* Beacon content keys: getBeaconContentKey and decodeBeaconContentKey     *)
(***************************************************************************)

\* BeaconLightClientNetworkContentType
LightClientBootstrap == 0
LightClientUpdatesByRange == 1
LightClientFinalityUpdate == 2
LightClientOptimisticUpdate == 3
BeaconContentTypes ==
  {LightClientBootstrap, LightClientUpdatesByRange, LightClientFinalityUpdate,
   LightClientOptimisticUpdate}

\* the SSZ key type of a beacon content type
BeaconKeyType(contentType) ==
  CASE contentType = LightClientBootstrap -> "LightClientBootstrapKey"
    [] contentType = LightClientUpdatesByRange -> "LightClientUpdatesByRangeKey"
    [] contentType = LightClientFinalityUpdate -> "LightClientFinalityUpdateKey"
    [] contentType = LightClientOptimisticUpdate -> "LightClientOptimisticUpdateKey"

\* bytes of keys: the four selectors, a byte after them, a byte above 0x7f
BeaconBytes == {0, 1, 2, 3, 4, 171}
ByteStringsUpTo(n) == UNION {[1..k -> BeaconBytes] : k \in 0..n}

\* getBeaconContentKey(contentType, serializedKey): the prefix byte in hex,
\* then the hex of the key without its "0x"
getBeaconContentKey(contentType, serializedKey) ==
  toHexString(<<contentType % 256>>)
    \o SubSeq(toHexString(serializedKey), 3, Len(toHexString(serializedKey)))

\* Type.deserialize(contentKeyBytes): the bytes read as a value of that type
Deserialized(type, contentKeyBytes) ==
  [ok |-> TRUE, type |-> type, value |-> contentKeyBytes, error |-> <<>>]

\* throw new Error(`unknown content type ${selector}`)
UnknownContentType(selectorText) ==
  [ok |-> FALSE, type |-> "none", value |-> <<>>,
   error |-> <<"unknown content type ">> \o selectorText]

\* a decoder whose default arm reads the bytes as a bootstrap key
decodeBeaconContentKeyDefaulting(serializedKey) ==
  Deserialized("LightClientBootstrapKey", SubSeq(serializedKey, 2, Len(serializedKey)))

\* decodeBeaconContentKey(serializedKey): serializedKey[0] is undefined for
\* the empty byte string
decodeBeaconContentKey(serializedKey) ==
  LET contentKeyBytes == SubSeq(serializedKey, 2, Len(serializedKey)) IN
    IF serializedKey = <<>> THEN UnknownContentType(<<"undefined">>)
    ELSE LET selector == serializedKey[1] IN
      CASE selector = LightClientBootstrap ->
             Deserialized("LightClientBootstrapKey", contentKeyBytes)
        [] selector = LightClientOptimisticUpdate ->
             Deserialized("LightClientOptimisticUpdateKey", contentKeyBytes)
        [] selector = LightClientFinalityUpdate ->
             Deserialized("LightClientFinalityUpdateKey", contentKeyBytes)
        [] selector = LightClientUpdatesByRange ->
             Deserialized("LightClientUpdatesByRange", contentKeyBytes)
        [] OTHER -> UnknownContentType(Decimal(selector))

\* a key is encoded, and the bytes of the encoding are decoded
GetBeaconContentKey ==
  /\ util = NoUtilCall
  /\ \E contentType \in BeaconContentTypes, serializedKey \in ByteStringsUpTo(MaxKeyLen) :
       LET hex == getBeaconContentKey(contentType, serializedKey) IN
         util' = [op |-> "getBeaconContentKey", in |-> <<contentType, serializedKey>>,
                  out |-> [hex |-> hex,
                           decoded |-> decodeBeaconContentKey(fromHexString(hex))]]
  /\ UNCHANGED restOfUtil

\* any byte string is decoded
DecodeBeaconContentKey ==
  /\ util = NoUtilCall
  /\ \E serializedKey \in ByteStringsUpTo(MaxKeyLen + 1) :
       util' = [op |-> "decodeBeaconContentKey", in |-> serializedKey,
                out |-> decodeBeaconContentKey(serializedKey)]
  /\ UNCHANGED restOfUtil

BeaconNext ==
  \/ GetBeaconContentKey
  \/ DecodeBeaconContentKey

\* C21: getBeaconContentKey(t, k) is the hex of the selector byte t followed
\* by the bytes of k, and decodeBeaconContentKey of those bytes returns k
\* deserialized with the SSZ key type of t.
C21_BeaconKeyRoundTrip ==
  util.op = "getBeaconContentKey" =>
    LET contentType == util.in[1]
        serializedKey == util.in[2]
    IN /\ util.out.hex = toHexString(<<contentType>> \o serializedKey)
       /\ util.out.decoded.ok
       /\ util.out.decoded.type = BeaconKeyType(contentType)
       /\ util.out.decoded.value = serializedKey

\* C22: decodeBeaconContentKey of a byte string whose first byte is none of
\* the four selectors, the empty byte string included, fails with
\* 'unknown content type <selector>' and returns no decoded key.
C22_UnknownSelectorFails ==
  (util.op = "decodeBeaconContentKey"
     /\ (util.in = <<>> \/ util.in[1] \notin {0, 1, 2, 3})) =>
    /\ ~util.out.ok
    /\ util.out.value = <<>>
    /\ Len(util.out.error) >= 2
    /\ util.out.error[1] = "unknown content type "
    /\ util.in = <<>> => util.out.error = <<"unknown content type ", "undefined">>
    /\ (util.in # <<>> /\ util.in[1] = 171) =>
         util.out.error = <<"unknown content type ", "1", "7", "1">>
    /\ (util.in # <<>> /\ util.in[1] = 4) =>
         util.out.error = <<"unknown content type ", "4">>

\* selector 171 in front of a key was rejected
C22_Witness ==
  /\ util.op = "decodeBeaconContentKey"
  /\ Len(util.in) = 2
  /\ util.in[1] = 171
  /\ ~util.out.ok
  /\ util.out.error = <<"unknown content type ", "1", "7", "1">>

(***************************************************************************)
(* TrieLevel: get, put, del and batch over the level database              *)
(***************************************************************************)

\* keys and values given to the TrieLevel; a value may be the empty buffer
TrieKeys == {<<0>>, <<171>>}
TrieValues == {<<>>, <<1>>}

\* what the level database holds under a key it does not have
NotFound == <<>>

\* the result null of get, and a buffer
Null == [found |-> FALSE, bytes |-> <<>>]
Buffer(bytes) == [found |-> TRUE, bytes |-> bytes]

\* BatchDBOp
PutOp(key, value) == [type |-> "put", key |-> key, value |-> value]
DelOp(key) == [type |-> "del", key |-> key, value |-> <<>>]
TrieOps == {PutOp(k, v) : k \in TrieKeys, v \in TrieValues} \cup {DelOp(k) : k \in TrieKeys}

TrieInit ==
  /\ trieDb = [hex \in {toHexString(k) : k \in TrieKeys} |-> NotFound]
  /\ trieLog = <<>>
  /\ trieRet = [key |-> <<>>, result |-> Null, at |-> 0]

\* get(key): db.get throws for a key it does not have, and get returns null
TrieLevelGet(level, key) ==
  IF level[toHexString(key)] = NotFound
    THEN Null
    ELSE Buffer(fromHexString(level[toHexString(key)]))

\* put(key, val)
TrieLevelPut(level, key, val) == [level EXCEPT ![toHexString(key)] = toHexString(val)]

\* del(key)
TrieLevelDel(level, key) == [level EXCEPT ![toHexString(key)] = NotFound]

\* a batch that runs every del of the stack before its puts
RECURSIVE TrieLevelBatchDelsFirst(_, _)
TrieLevelBatchDelsFirst(level, opStack) ==
  LET dels == SelectSeq(opStack, LAMBDA op : op.type = "del")
      puts == SelectSeq(opStack, LAMBDA op : op.type = "put")
      ordered == dels \o puts
  IN IF ordered = <<>> THEN level
     ELSE LET op == Head(ordered) IN
            TrieLevelBatchDelsFirst(
              IF op.type = "del" THEN TrieLevelDel(level, op.key)
                                 ELSE TrieLevelPut(level, op.key, op.value),
              Tail(ordered))

\* batch(opStack): for each op of the stack, del when its type is 'del',
\* put when its type is 'put'
RECURSIVE TrieLevelBatch(_, _)
TrieLevelBatch(level, opStack) ==
  IF opStack = <<>> THEN level
  ELSE LET op == Head(opStack)
           afterDel == IF op.type = "del" THEN TrieLevelDel(level, op.key) ELSE level
           afterPut == IF op.type = "put"
                         THEN TrieLevelPut(afterDel, op.key, op.value)
                         ELSE afterDel
       IN TrieLevelBatch(afterPut, Tail(opStack))

TriePut ==
  /\ Len(trieLog) < MaxOps
  /\ \E key \in TrieKeys, val \in TrieValues :
       /\ trieDb' = TrieLevelPut(trieDb, key, val)
       /\ trieLog' = Append(trieLog, PutOp(key, val))
  /\ UNCHANGED <<trieRet, restOfTrie>>

TrieDel ==
  /\ Len(trieLog) < MaxOps
  /\ \E key \in TrieKeys :
       /\ trieDb' = TrieLevelDel(trieDb, key)
       /\ trieLog' = Append(trieLog, DelOp(key))
  /\ UNCHANGED <<trieRet, restOfTrie>>

TrieBatch ==
  /\ \E n \in 0..MaxBatch :
       /\ Len(trieLog) + n <= MaxOps
       /\ \E opStack \in [1..n -> TrieOps] :
            /\ trieDb' = TrieLevelBatch(trieDb, opStack)
            /\ trieLog' = trieLog \o opStack
  /\ UNCHANGED <<trieRet, restOfTrie>>

TrieGet ==
  /\ \E key \in TrieKeys :
       trieRet' = [key |-> key, result |-> TrieLevelGet(trieDb, key), at |-> Len(trieLog)]
  /\ UNCHANGED <<trieDb, trieLog, restOfTrie>>

TrieNext ==
  \/ TriePut
  \/ TrieDel
  \/ TrieBatch
  \/ TrieGet

\* the value of the last put of key in a list of operations that no del of
\* key follows, or null
RECURSIVE LastWrite(_, _)
LastWrite(ops, key) ==
  IF ops = <<>> THEN Null
  ELSE LET op == ops[Len(ops)] IN
         IF op.key = key
           THEN IF op.type = "put" THEN Buffer(op.value) ELSE Null
           ELSE LastWrite(SubSeq(ops, 1, Len(ops) - 1), key)

\* C23: TrieLevel is a key -> value map: after any puts, dels and batches,
\* a batch counting as its operations one at a time in list order, get(k)
\* returns the value of the last put of k that no del of k follows, or null.
C23_TrieLevelIsMap ==
  /\ \A key \in TrieKeys : TrieLevelGet(trieDb, key) = LastWrite(trieLog, key)
  /\ trieRet.at > 0 =>
       trieRet.result = LastWrite(SubSeq(trieLog, 1, trieRet.at), trieRet.key)

\* a put of a key and then its del went in as one batch, and get found null
C23_Witness ==
  /\ Len(trieLog) = 3
  /\ trieLog[2].type = "put"
  /\ trieLog[3].type = "del"
  /\ trieLog[3].key = trieLog[2].key
  /\ trieRet.at = 3
  /\ trieRet.key = trieLog[2].key
  /\ trieRet.result = Null

(***************************************************************************)
(* UltralightStateManager                                                  *)
(***************************************************************************)

\* the StateNetwork the manager was constructed over
TheStateNetwork == 1

\* state roots given to setStateRoot
StateRootBytes == UNION {[1..k -> {0, 171}] : k \in 1..MaxRootLen}

\* constructor(stateNetwork): stateRoot = '', stateRootBytes = new Uint8Array()
NewManager(stateNetwork) ==
  [state |-> stateNetwork, stateRoot |-> <<>>, stateRootBytes |-> <<>>]

NoManager == [state |-> 0, stateRoot |-> <<>>, stateRootBytes |-> <<>>]

\* a call of a method: what it was given, how it ended, what it returned
Call(op, arg, outcome, ret, error) ==
  [op |-> op, arg |-> arg, outcome |-> outcome, ret |-> ret, error |-> error]

MgrInit ==
  /\ mgr = NewManager(TheStateNetwork)
  /\ mgrCall = Call("none", <<>>, "none", <<>>, "")
  /\ mgrCopy = NoManager

\* the methods whose body is `return undefined` or empty
ResolvingMethods == {"putAccount", "checkpoint", "commit"}

\* the methods whose body is throw new Error('Method not implemented.')
ThrowingMethods ==
  {"dumpStorage", "dumpStorageRange", "generateCanonicalGenesis", "getProof",
   "deleteAccount", "modifyAccountFields", "putContractCode", "putContractStorage",
   "clearContractStorage", "revert"}

\* bytesToHex(bytes)
bytesToHex(bytes) == toHexString(bytes)

\* a setStateRoot that keeps the bytes and leaves the hex string as it was
setStateRootBytesOnly(manager, stateRoot) ==
  [manager EXCEPT !.stateRootBytes = stateRoot]

\* setStateRoot(stateRoot)
setStateRoot(manager, stateRoot) ==
  [manager EXCEPT !.stateRootBytes = stateRoot, !.stateRoot = bytesToHex(stateRoot)]

\* getStateRoot()
getStateRoot(manager) == manager.stateRootBytes

\* shallowCopy(): new UltralightStateManager(this.state)
shallowCopy(manager) == NewManager(manager.state)

SetStateRoot ==
  /\ \E stateRoot \in StateRootBytes :
       /\ mgr' = setStateRoot(mgr, stateRoot)
       /\ mgrCall' = Call("setStateRoot", stateRoot, "resolved", <<>>, "")
  /\ UNCHANGED <<mgrCopy, restOfMgr>>

GetStateRoot ==
  /\ mgrCall' = Call("getStateRoot", <<>>, "resolved", getStateRoot(mgr), "")
  /\ UNCHANGED <<mgr, mgrCopy, restOfMgr>>

\* putAccount, checkpoint, commit
ResolvingMethod ==
  /\ \E op \in ResolvingMethods :
       mgrCall' = Call(op, <<>>, "resolved", <<>>, "")
  /\ UNCHANGED <<mgr, mgrCopy, restOfMgr>>

\* deleteAccount, modifyAccountFields, putContractCode, putContractStorage,
\* clearContractStorage, revert and the dump / genesis / proof methods
ThrowingMethod ==
  /\ \E op \in ThrowingMethods :
       mgrCall' = Call(op, <<>>, "thrown", <<>>, "Method not implemented.")
  /\ UNCHANGED <<mgr, mgrCopy, restOfMgr>>

ShallowCopy ==
  /\ mgrCopy' = shallowCopy(mgr)
  /\ mgrCall' = Call("shallowCopy", <<>>, "returned", <<>>, "")
  /\ UNCHANGED <<mgr, restOfMgr>>

MgrNext ==
  \/ SetStateRoot
  \/ GetStateRoot
  \/ ResolvingMethod
  \/ ThrowingMethod
  \/ ShallowCopy

\* C24: setStateRoot(r) is the only method that changes the manager, and
\* after it getStateRoot() returns r and stateRoot is the hex of r, so that
\* stateRoot and stateRootBytes denote the same root; putAccount,
\* checkpoint and commit resolve and change nothing; deleteAccount,
\* modifyAccountFields, putContractCode, putContractStorage,
\* clearContractStorage and revert fail with 'Method not implemented.' and
\* change nothing.
C24_OnlySetStateRootWrites ==
  [][LET op == mgrCall'.op IN
       /\ op = "setStateRoot" =>
            /\ getStateRoot(mgr') = mgrCall'.arg
            /\ mgr'.stateRoot = <<"0", "x">> \o HexPairs(mgrCall'.arg)
            /\ mgr'.state = mgr.state
            /\ mgrCall'.outcome = "resolved"
       /\ op # "setStateRoot" => mgr' = mgr
       /\ op = "getStateRoot" => mgrCall'.ret = mgr.stateRootBytes
       /\ op \in {"putAccount", "checkpoint", "commit"} => mgrCall'.outcome = "resolved"
       /\ op \in {"deleteAccount", "modifyAccountFields", "putContractCode",
                   "putContractStorage", "clearContractStorage", "revert"} =>
            /\ mgrCall'.outcome = "thrown"
            /\ mgrCall'.error = "Method not implemented."
       /\ fromHexString(mgr.stateRoot) = mgr.stateRootBytes
       /\ fromHexString(mgr'.stateRoot) = mgr'.stateRootBytes]_vars

\* revert failed on a manager whose root had been set to 0xab
C24_Witness ==
  /\ mgrCall.op = "revert"
  /\ mgrCall.outcome = "thrown"
  /\ mgr.stateRootBytes = <<171>>
  /\ mgr.stateRoot = <<"0", "x", "a", "b">>

\* C28: shallowCopy() returns a new manager over the same StateNetwork whose
\* state root (getStateRoot() and stateRoot) is the state root of the
\* original at the time of the copy.
C28_CopyKeepsStateRoot ==
  [][mgrCall'.op = "shallowCopy" =>
       /\ mgrCopy'.state = mgr.state
       /\ getStateRoot(mgrCopy') = getStateRoot(mgr)
       /\ mgrCopy'.stateRoot = mgr.stateRoot]_vars

(***************************************************************************)
(* Specifications: each component runs with the others at rest            *)
(***************************************************************************)

Init == HistInit /\ StateInit /\ SdbInit /\ SortAtRest /\ UtilInit /\ TrieInit /\ MgrInit /\ QryInit

InitAnyRadius == HistInitAnyRadius /\ StateInit /\ SdbInit /\ SortAtRest /\ UtilInit /\ TrieInit /\ MgrInit /\ QryInit

InitSort == HistInit /\ StateInit /\ SdbInit /\ SortInit /\ UtilInit /\ TrieInit /\ MgrInit /\ QryInit

\* concurrent addContentToHistory calls on a node with the default radius
Spec == Init /\ [][HistNext]_vars

\* the same on a node with any node id and any radius
SpecRadius == InitAnyRadius /\ [][HistNext]_vars

\* one addContentToHistory call on a fresh node
SpecOneCall == Init /\ [][OneCallNext]_vars

SpecState == Init /\ [][StateNext]_vars

SpecStateDB == Init /\ [][SdbNext]_vars

\* calls on the StateDB next to an updateAccount, with a fair event loop
SpecStateDBCalls == Init /\ [][SdbCallsNext]_vars /\ SdbFairness

SpecSort == InitSort /\ [][SortNext]_vars

\* calls of the history utility functions
SpecUtil == Init /\ [][UtilNext]_vars

\* calls of the methods of one UltralightStateManager
SpecManager == Init /\ [][MgrNext]_vars

\* operations on one TrieLevel
SpecTrie == Init /\ [][TrieNext]_vars

\* calls of the beacon content key functions
SpecBeacon == Init /\ [][BeaconNext]_vars

====
